---- MODULE Spec2Model ----
(***************************************************************************)
(* Model of the IdentityVerification contract (contracts/Identity.sol, as  *)
(* carried in packages/nextjs/app/page.tsx lines 224-354) of               *)
(* fourWayz/sca-den-tity.                                                  *)
(*                                                                         *)
(* Every public function of the contract is one action: a transaction is   *)
(* executed as a whole by the EVM, and a failing require(...) reverts it,  *)
(* so a call either applies all of its writes and events or none of them.  *)
(* The variable `last` is the outcome of the most recent call as its       *)
(* caller sees it (return value or revert reason).                         *)
(*                                                                         *)
(* The Home component of the same file (lines 28-222) is the variable      *)
(* `page`: its effect and fetchIdentity read the contract (SpecPage).      *)
(***************************************************************************)
EXTENDS Integers, Sequences, FiniteSets, TLC

\* ---------------------------------------------------------------- bounds
\* Number of externally owned accounts that send transactions.
NumCallers == 2
\* The longest event log explored (each successful mutation emits two events).
MaxLog == 6
\* The number of submitted transactions that can wait for execution at once.
MaxPool == 2

\* ------------------------------------------------------------ value sets
\* address(0), the default value of an address slot; never a msg.sender.
ZeroAddress == 0
Callers == 1..NumCallers
Addresses == {ZeroAddress} \cup Callers
\* string arguments; "" is the default value of a string slot and is also a
\* legal argument (the contract validates nothing).
Names == {"", "Alice"}
Emails == {"", "alice@example.com"}

\* The functions that write the store.
Mutating == {"addIdentity", "updateIdentity", "deleteIdentity",
             "verifyIdentity", "revokeIdentity"}

\* Revert reasons and the success marker of a call.
AlreadyExists == "Identity already exists"
NotFound == "Identity does not exist"
Ok == "ok"

\* ------------------------------------------------------------- the state
\* identities, log: the contract's storage and the events emitted so far.
\* last, created: the outcome of the latest completed call and the history of
\* successful registrations and deletions.
\* pool, run: the transactions submitted and not yet executed, and the
\* transaction the machine is executing, statement by statement.
\* page: the state of the Home component of the client page.
VARIABLES identities, log, last, created, pool, run, page

vars == <<identities, log, last, created, pool, run, page>>

\* struct Identity
Identity(user, name, email, isVerified, exists) ==
    [user |-> user, name |-> name, email |-> email,
     isVerified |-> isVerified, exists |-> exists]

\* The value of a mapping slot that was never written, and the value
\* `delete identities[k]` resets a slot to: every member at its default.
DefaultIdentity == Identity(ZeroAddress, "", "", FALSE, FALSE)

\* ------------------------------------------------------------ the events
IdentityAdded(user, name, email) ==
    [type |-> "IdentityAdded", user |-> user, name |-> name, email |-> email]

IdentityUpdated(user, name, email) ==
    [type |-> "IdentityUpdated", user |-> user, name |-> name, email |-> email]

IdentityDeleted(user) == [type |-> "IdentityDeleted", user |-> user]

IdentityVerified(user) == [type |-> "IdentityVerified", user |-> user]

IdentityRevoked(user) == [type |-> "IdentityRevoked", user |-> user]

IdentityActionLogged(action) == [type |-> "IdentityActionLogged", action |-> action]

\* Faulty variant of emit: the event is put in front of the earlier entries.
emit_Prepend(l, e) == <<e>> \o l

\* emit e: the event is appended to the transaction log of the chain.
emit(l, e) == Append(l, e)

\* Faulty variant of logIdentityAction: the generic event is not emitted.
logIdentityAction_Silent(l, action) == l

\* function logIdentityAction(string memory action) internal
logIdentityAction(l, action) == emit(l, IdentityActionLogged(action))

\* ------------------------------------------------------- call outcomes
\* What the caller of a function gets back: the function, msg.sender, the
\* arguments, the revert reason (or Ok), and the returned value of the two
\* view functions (ret for getIdentity, flag for isIdentityVerified).
Outcome(op, sender, user, name, email, status, ret, flag) ==
    [op |-> op, caller |-> sender, user |-> user, name |-> name,
     email |-> email, status |-> status, ret |-> ret, flag |-> flag]

NoCall == Outcome("none", ZeroAddress, ZeroAddress, "", "", Ok, DefaultIdentity, FALSE)

\* History of the calls: created[p] holds when an addIdentity sent by p has
\* succeeded and no deleteIdentity sent by p has succeeded since.
Observed(c, o) ==
    IF o.status = Ok /\ o.op = "addIdentity" THEN [c EXCEPT ![o.caller] = TRUE]
    ELSE IF o.status = Ok /\ o.op = "deleteIdentity" THEN [c EXCEPT ![o.caller] = FALSE]
    ELSE c

\* The principals whose successful mutations are in the log.
Senders(l) ==
    {l[i].user : i \in {j \in 1..Len(l) : l[j].type # "IdentityActionLogged"}}

\* The explored log is bounded: MaxLog entries when several principals have
\* mutated the store, and one more mutation (two more entries) for the
\* histories in which sender is the only principal that has.
LogCap(sender) ==
    IF Senders(log) \subseteq {sender} THEN MaxLog + 2 ELSE MaxLog

\* A successful mutation emits two events and needs room for them.
LogRoom(sender, succeeds) == succeeds => Len(log) + 2 <= LogCap(sender)

\* An empty slot of the pool, and the call of no transaction.
NoTx == [op |-> "none", caller |-> ZeroAddress, name |-> "", email |-> ""]

\* No transaction is executing. A running transaction is its call, the source
\* line of the statement it executes next, and the storage and log as they
\* were when it started (what a revert restores).
Idle ==
    [call |-> NoTx, pc |-> 0,
     ids |-> [a \in Addresses |-> DefaultIdentity], log |-> << >>]

\* A toast of react-toastify: toast(message, { type }).
notify(message, type) == [message |-> message, type |-> type]

\* The Home component as first rendered: the useState initial values (null
\* is the empty sequence, a value v of a nullable state is <<v>>; the unset
\* account "" is the empty sequence too), no toast shown, and the effect of
\* the mount still to run.
Home ==
    [contract |-> FALSE, account |-> << >>, name |-> "", email |-> "",
     identity |-> << >>, isIdentityFetched |-> FALSE,
     toast |-> notify("", "none"), effect |-> TRUE]

Init ==
    /\ page = Home
    /\ identities = [a \in Addresses |-> DefaultIdentity]
    /\ log = << >>
    /\ last = NoCall
    /\ created = [a \in Callers |-> FALSE]
    /\ pool = [i \in 1..MaxPool |-> NoTx]
    /\ run = Idle

\* ------------------------------------------------------------ functions
\* Faulty variant of AddedIdentity: a new record is stored as already verified.
AddedIdentity_Verified(sender, _name, _email) ==
    Identity(sender, _name, _email, TRUE, TRUE)

\* Faulty variant of AddedIdentity: the user member is left at its default.
AddedIdentity_NoUser(sender, _name, _email) ==
    Identity(ZeroAddress, _name, _email, FALSE, TRUE)

\* Faulty variant of AddedIdentity: the name and email members are filled in swapped.
AddedIdentity_Swapped(sender, _name, _email) ==
    Identity(sender, _email, _name, FALSE, TRUE)

\* The record addIdentity stores for msg.sender.
AddedIdentity(sender, _name, _email) ==
    Identity(sender, _name, _email, FALSE, TRUE)

\* Faulty variant of addIdentity: the require on !exists is missing, so a second
\* registration overwrites the live record and succeeds.
addIdentity_NoRequire(sender, _name, _email) ==
    /\ LogRoom(sender, TRUE)
    /\ identities' = [identities EXCEPT
                         ![sender] = AddedIdentity(sender, _name, _email)]
    /\ log' = logIdentityAction(
                  emit(log, IdentityAdded(sender, _name, _email)),
                  "Identity Added")
    /\ last' = Outcome("addIdentity", sender, sender, _name, _email,
                       Ok, DefaultIdentity, FALSE)
    /\ created' = Observed(created, last')
    /\ UNCHANGED <<pool, run, page>>

\* function addIdentity(string memory _name, string memory _email) public
addIdentity(sender, _name, _email) ==
    /\ LogRoom(sender, ~identities[sender].exists)
    /\ IF ~identities[sender].exists
       THEN /\ identities' = [identities EXCEPT
                                 ![sender] = AddedIdentity(sender, _name, _email)]
            /\ log' = logIdentityAction(
                          emit(log, IdentityAdded(sender, _name, _email)),
                          "Identity Added")
            /\ last' = Outcome("addIdentity", sender, sender, _name, _email,
                               Ok, DefaultIdentity, FALSE)
       ELSE /\ UNCHANGED <<identities, log>>
            /\ last' = Outcome("addIdentity", sender, sender, _name, _email,
                               AlreadyExists, DefaultIdentity, FALSE)
    /\ created' = Observed(created, last')
    /\ UNCHANGED <<pool, run, page>>

\* Faulty variant of UpdatedIdentity: an edit also clears the verification flag.
UpdatedIdentity_ClearsVerified(r, _name, _email) ==
    [[[r EXCEPT !.name = _name] EXCEPT !.email = _email] EXCEPT !.isVerified = FALSE]

\* The two member writes of updateIdentity, in program order.
UpdatedIdentity(r, _name, _email) ==
    [[r EXCEPT !.name = _name] EXCEPT !.email = _email]

\* Faulty variant of updateIdentity: the name is written before existence is checked
\* and the failure is reported without undoing the write.
updateIdentity_WritesBeforeCheck(sender, _name, _email) ==
    /\ LogRoom(sender, identities[sender].exists)
    /\ IF identities[sender].exists
       THEN /\ identities' = [identities EXCEPT
                                 ![sender] = UpdatedIdentity(@, _name, _email)]
            /\ log' = logIdentityAction(
                          emit(log, IdentityUpdated(sender, _name, _email)),
                          "Identity Updated")
            /\ last' = Outcome("updateIdentity", sender, sender, _name, _email,
                               Ok, DefaultIdentity, FALSE)
       ELSE /\ identities' = [identities EXCEPT ![sender].name = _name]
            /\ UNCHANGED log
            /\ last' = Outcome("updateIdentity", sender, sender, _name, _email,
                               NotFound, DefaultIdentity, FALSE)
    /\ created' = Observed(created, last')
    /\ UNCHANGED <<pool, run, page>>

\* function updateIdentity(string memory _name, string memory _email) public
updateIdentity(sender, _name, _email) ==
    /\ LogRoom(sender, identities[sender].exists)
    /\ IF identities[sender].exists
       THEN /\ identities' = [identities EXCEPT
                                 ![sender] = UpdatedIdentity(@, _name, _email)]
            /\ log' = logIdentityAction(
                          emit(log, IdentityUpdated(sender, _name, _email)),
                          "Identity Updated")
            /\ last' = Outcome("updateIdentity", sender, sender, _name, _email,
                               Ok, DefaultIdentity, FALSE)
       ELSE /\ UNCHANGED <<identities, log>>
            /\ last' = Outcome("updateIdentity", sender, sender, _name, _email,
                               NotFound, DefaultIdentity, FALSE)
    /\ created' = Observed(created, last')
    /\ UNCHANGED <<pool, run, page>>

\* Faulty variant of deleteIdentity: only the exists member is cleared (a tombstone),
\* the other members keep their values.
deleteIdentity_OnlyClearsExists(sender) ==
    /\ LogRoom(sender, identities[sender].exists)
    /\ IF identities[sender].exists
       THEN /\ identities' = [identities EXCEPT ![sender].exists = FALSE]
            /\ log' = logIdentityAction(
                          emit(log, IdentityDeleted(sender)),
                          "Identity Deleted")
            /\ last' = Outcome("deleteIdentity", sender, sender, "", "",
                               Ok, DefaultIdentity, FALSE)
       ELSE /\ UNCHANGED <<identities, log>>
            /\ last' = Outcome("deleteIdentity", sender, sender, "", "",
                               NotFound, DefaultIdentity, FALSE)
    /\ created' = Observed(created, last')
    /\ UNCHANGED <<pool, run, page>>

\* Faulty variant of deleteIdentity: the whole mapping is reset, not the caller's slot.
deleteIdentity_ClearsAll(sender) ==
    /\ LogRoom(sender, identities[sender].exists)
    /\ IF identities[sender].exists
       THEN /\ identities' = [a \in Addresses |-> DefaultIdentity]
            /\ log' = logIdentityAction(
                          emit(log, IdentityDeleted(sender)),
                          "Identity Deleted")
            /\ last' = Outcome("deleteIdentity", sender, sender, "", "",
                               Ok, DefaultIdentity, FALSE)
       ELSE /\ UNCHANGED <<identities, log>>
            /\ last' = Outcome("deleteIdentity", sender, sender, "", "",
                               NotFound, DefaultIdentity, FALSE)
    /\ created' = Observed(created, last')
    /\ UNCHANGED <<pool, run, page>>

\* Faulty variant of deleteIdentity: the members are reset one by one and the
\* exists member is forgotten.
deleteIdentity_KeepsExists(sender) ==
    /\ LogRoom(sender, identities[sender].exists)
    /\ IF identities[sender].exists
       THEN /\ identities' = [identities EXCEPT
                                 ![sender] = [DefaultIdentity EXCEPT !.exists = TRUE]]
            /\ log' = logIdentityAction(
                          emit(log, IdentityDeleted(sender)),
                          "Identity Deleted")
            /\ last' = Outcome("deleteIdentity", sender, sender, "", "",
                               Ok, DefaultIdentity, FALSE)
       ELSE /\ UNCHANGED <<identities, log>>
            /\ last' = Outcome("deleteIdentity", sender, sender, "", "",
                               NotFound, DefaultIdentity, FALSE)
    /\ created' = Observed(created, last')
    /\ UNCHANGED <<pool, run, page>>

\* function deleteIdentity() public
deleteIdentity(sender) ==
    /\ LogRoom(sender, identities[sender].exists)
    /\ IF identities[sender].exists
       THEN /\ identities' = [identities EXCEPT ![sender] = DefaultIdentity]
            /\ log' = logIdentityAction(
                          emit(log, IdentityDeleted(sender)),
                          "Identity Deleted")
            /\ last' = Outcome("deleteIdentity", sender, sender, "", "",
                               Ok, DefaultIdentity, FALSE)
       ELSE /\ UNCHANGED <<identities, log>>
            /\ last' = Outcome("deleteIdentity", sender, sender, "", "",
                               NotFound, DefaultIdentity, FALSE)
    /\ created' = Observed(created, last')
    /\ UNCHANGED <<pool, run, page>>

\* The member write of verifyIdentity.
\* Faulty variant of VerifiedIdentity: the flag is not written.
VerifiedIdentity_NoWrite(r) == r

VerifiedIdentity(r) == [r EXCEPT !.isVerified = TRUE]

\* Faulty variant of verifyIdentity: the require on exists is missing.
verifyIdentity_NoRequire(sender) ==
    /\ LogRoom(sender, TRUE)
    /\ identities' = [identities EXCEPT ![sender] = VerifiedIdentity(@)]
    /\ log' = logIdentityAction(
                  emit(log, IdentityVerified(sender)),
                  "Identity Verified")
    /\ last' = Outcome("verifyIdentity", sender, sender, "", "",
                       Ok, DefaultIdentity, FALSE)
    /\ created' = Observed(created, last')
    /\ UNCHANGED <<pool, run, page>>

\* Faulty variant of verifyIdentity: a second require refuses a record that
\* is already verified.
verifyIdentity_RejectsVerified(sender) ==
    /\ LogRoom(sender, identities[sender].exists /\ ~identities[sender].isVerified)
    /\ IF ~identities[sender].exists
       THEN /\ UNCHANGED <<identities, log>>
            /\ last' = Outcome("verifyIdentity", sender, sender, "", "",
                               NotFound, DefaultIdentity, FALSE)
       ELSE IF identities[sender].isVerified
       THEN /\ UNCHANGED <<identities, log>>
            /\ last' = Outcome("verifyIdentity", sender, sender, "", "",
                               "Identity already verified", DefaultIdentity, FALSE)
       ELSE /\ identities' = [identities EXCEPT ![sender] = VerifiedIdentity(@)]
            /\ log' = logIdentityAction(
                          emit(log, IdentityVerified(sender)),
                          "Identity Verified")
            /\ last' = Outcome("verifyIdentity", sender, sender, "", "",
                               Ok, DefaultIdentity, FALSE)
    /\ created' = Observed(created, last')
    /\ UNCHANGED <<pool, run, page>>

\* function verifyIdentity() public
verifyIdentity(sender) ==
    /\ LogRoom(sender, identities[sender].exists)
    /\ IF identities[sender].exists
       THEN /\ identities' = [identities EXCEPT ![sender] = VerifiedIdentity(@)]
            /\ log' = logIdentityAction(
                          emit(log, IdentityVerified(sender)),
                          "Identity Verified")
            /\ last' = Outcome("verifyIdentity", sender, sender, "", "",
                               Ok, DefaultIdentity, FALSE)
       ELSE /\ UNCHANGED <<identities, log>>
            /\ last' = Outcome("verifyIdentity", sender, sender, "", "",
                               NotFound, DefaultIdentity, FALSE)
    /\ created' = Observed(created, last')
    /\ UNCHANGED <<pool, run, page>>

\* Faulty variant of RevokedIdentity: revoking also clears the name.
RevokedIdentity_ClearsName(r) == [r EXCEPT !.isVerified = FALSE, !.name = ""]

\* The member write of revokeIdentity.
RevokedIdentity(r) == [r EXCEPT !.isVerified = FALSE]

\* Faulty variant of revokeIdentity: the action name was copied from
\* verifyIdentity.
revokeIdentity_WrongAction(sender) ==
    /\ LogRoom(sender, identities[sender].exists)
    /\ IF identities[sender].exists
       THEN /\ identities' = [identities EXCEPT ![sender] = RevokedIdentity(@)]
            /\ log' = logIdentityAction(
                          emit(log, IdentityRevoked(sender)),
                          "Identity Verified")
            /\ last' = Outcome("revokeIdentity", sender, sender, "", "",
                               Ok, DefaultIdentity, FALSE)
       ELSE /\ UNCHANGED <<identities, log>>
            /\ last' = Outcome("revokeIdentity", sender, sender, "", "",
                               NotFound, DefaultIdentity, FALSE)
    /\ created' = Observed(created, last')
    /\ UNCHANGED <<pool, run, page>>

\* function revokeIdentity() public
revokeIdentity(sender) ==
    /\ LogRoom(sender, identities[sender].exists)
    /\ IF identities[sender].exists
       THEN /\ identities' = [identities EXCEPT ![sender] = RevokedIdentity(@)]
            /\ log' = logIdentityAction(
                          emit(log, IdentityRevoked(sender)),
                          "Identity Revoked")
            /\ last' = Outcome("revokeIdentity", sender, sender, "", "",
                               Ok, DefaultIdentity, FALSE)
       ELSE /\ UNCHANGED <<identities, log>>
            /\ last' = Outcome("revokeIdentity", sender, sender, "", "",
                               NotFound, DefaultIdentity, FALSE)
    /\ created' = Observed(created, last')
    /\ UNCHANGED <<pool, run, page>>

\* Faulty variant of getIdentityResult: no require, as the generated getter of the
\* public mapping behaves.
getIdentityResult_NoRequire(ids, _user) == [status |-> Ok, ret |-> ids[_user]]

\* The result of the view function getIdentity(_user) on a store: the revert
\* reason or Ok, and the returned copy of the record.
getIdentityResult(ids, _user) ==
    IF ids[_user].exists
    THEN [status |-> Ok, ret |-> ids[_user]]
    ELSE [status |-> NotFound, ret |-> DefaultIdentity]

\* The result of the view function isIdentityVerified(_user) on a store.
isIdentityVerifiedResult(ids, _user) ==
    IF ids[_user].exists
    THEN [status |-> Ok, flag |-> ids[_user].isVerified]
    ELSE [status |-> NotFound, flag |-> FALSE]

\* Faulty variant of getIdentity: the record of msg.sender is read, not the
\* record of the _user argument.
getIdentity_OwnRecord(sender, _user) ==
    /\ last' = Outcome("getIdentity", sender, _user, "", "",
                       getIdentityResult(identities, sender).status,
                       getIdentityResult(identities, sender).ret, FALSE)
    /\ UNCHANGED <<identities, log>>
    /\ created' = Observed(created, last')
    /\ UNCHANGED <<pool, run, page>>

\* function getIdentity(address _user) public view returns (Identity memory)
getIdentity(sender, _user) ==
    /\ last' = Outcome("getIdentity", sender, _user, "", "",
                       getIdentityResult(identities, _user).status,
                       getIdentityResult(identities, _user).ret, FALSE)
    /\ UNCHANGED <<identities, log>>
    /\ created' = Observed(created, last')
    /\ UNCHANGED <<pool, run, page>>

\* function isIdentityVerified(address _user) public view returns (bool)
isIdentityVerified(sender, _user) ==
    /\ last' = Outcome("isIdentityVerified", sender, _user, "", "",
                       isIdentityVerifiedResult(identities, _user).status,
                       DefaultIdentity,
                       isIdentityVerifiedResult(identities, _user).flag)
    /\ UNCHANGED <<identities, log>>
    /\ created' = Observed(created, last')
    /\ UNCHANGED <<pool, run, page>>

Next ==
    \/ \E sender \in Callers, _name \in Names, _email \in Emails :
           addIdentity(sender, _name, _email)
    \/ \E sender \in Callers, _name \in Names, _email \in Emails :
           updateIdentity(sender, _name, _email)
    \/ \E sender \in Callers : deleteIdentity(sender)
    \/ \E sender \in Callers : verifyIdentity(sender)
    \/ \E sender \in Callers : revokeIdentity(sender)
    \/ \E sender \in Callers, _user \in Addresses : getIdentity(sender, _user)
    \/ \E sender \in Callers, _user \in Addresses : isIdentityVerified(sender, _user)

Spec == Init /\ [][Next]_vars

\* ------------------------------------------- statement-level execution
\* The contract's functions statement by statement. A statement is named by
\* its line in packages/nextjs/app/page.tsx; line 0 stands for "returned".

\* The first statement of each mutating function.
FirstLine(op) ==
    CASE op = "addIdentity" -> 272
      [] op = "updateIdentity" -> 290
      [] op = "deleteIdentity" -> 301
      [] op = "verifyIdentity" -> 311
      [] op = "revokeIdentity" -> 321

\* Faulty variant of NextLine: the name write of updateIdentity is repeated
\* without end.
NextLine_Loops(line) ==
    CASE line = 272 -> 273
      [] line = 273 -> 280
      [] line = 291 -> 291
      [] line \in {281, 294, 304, 314, 324} -> 0
      [] OTHER -> line + 1

\* The statement that follows a statement: the functions are straight-line
\* code, and the logIdentityAction call is the last statement of each.
NextLine(line) ==
    CASE line = 272 -> 273
      [] line = 273 -> 280
      [] line \in {281, 294, 304, 314, 324} -> 0
      [] OTHER -> line + 1

\* Faulty variant of RequireFails: addIdentity does not check for a live
\* record.
RequireFails_AddUnchecked(line, ids, sender) ==
    CASE line \in {290, 301, 311, 321} -> ~ids[sender].exists
      [] OTHER -> FALSE

\* The require statements: whether the one at line fails for msg.sender.
RequireFails(line, ids, sender) ==
    CASE line = 272 -> ids[sender].exists
      [] line \in {290, 301, 311, 321} -> ~ids[sender].exists
      [] OTHER -> FALSE

\* The reason string of the require at line.
RevertReason(line) == IF line = 272 THEN AlreadyExists ELSE NotFound

\* The storage after the statement at line of call c has executed.
StoreAfter(line, ids, c) ==
    CASE line = 273 ->
             [ids EXCEPT ![c.caller] = AddedIdentity(c.caller, c.name, c.email)]
      [] line = 291 -> [ids EXCEPT ![c.caller].name = c.name]
      [] line = 292 -> [ids EXCEPT ![c.caller].email = c.email]
      [] line = 302 -> [ids EXCEPT ![c.caller] = DefaultIdentity]
      [] line = 312 -> [ids EXCEPT ![c.caller] = VerifiedIdentity(@)]
      [] line = 322 -> [ids EXCEPT ![c.caller] = RevokedIdentity(@)]
      [] OTHER -> ids

\* The events after the statement at line of call c has executed.
LogAfter(line, l, c) ==
    CASE line = 280 -> emit(l, IdentityAdded(c.caller, c.name, c.email))
      [] line = 281 -> logIdentityAction(l, "Identity Added")
      [] line = 293 -> emit(l, IdentityUpdated(c.caller, c.name, c.email))
      [] line = 294 -> logIdentityAction(l, "Identity Updated")
      [] line = 303 -> emit(l, IdentityDeleted(c.caller))
      [] line = 304 -> logIdentityAction(l, "Identity Deleted")
      [] line = 313 -> emit(l, IdentityVerified(c.caller))
      [] line = 314 -> logIdentityAction(l, "Identity Verified")
      [] line = 323 -> emit(l, IdentityRevoked(c.caller))
      [] line = 324 -> logIdentityAction(l, "Identity Revoked")
      [] OTHER -> l

\* Faulty variant of CallsOut: updateIdentity calls another contract between
\* its two member writes.
CallsOut_BetweenWrites(line) == line = 292

\* Whether the statement at line hands control to code outside the contract
\* (an external call), which could call back in before the function is done.
\* No statement of the contract does.
CallsOut(line) == FALSE

\* The storage and log as the last completed transaction left them.
CommittedStore == IF run.pc = 0 THEN identities ELSE run.ids

CommittedLog == IF run.pc = 0 THEN log ELSE run.log

\* The calls that are submitted as transactions: every mutating function by
\* every sender, addIdentity with a non-empty name and email and
\* updateIdentity with empty ones.
TxCalls ==
    {[op |-> o, caller |-> p,
      name |-> IF o = "addIdentity" THEN "Alice" ELSE "",
      email |-> IF o = "addIdentity" THEN "alice@example.com" ELSE ""] :
        o \in Mutating, p \in Callers}

\* The slots of the pool that hold a transaction.
Pending == {i \in 1..MaxPool : pool[i] # NoTx}

\* A sender submits call c: it waits in the first free slot of the pool. The
\* explored log is bounded, so a transaction is accepted only while every
\* transaction in flight can still emit its two events.
Submit(i, c) ==
    /\ pool[i] = NoTx
    /\ \A j \in 1..(i - 1) : pool[j] # NoTx
    /\ Len(CommittedLog)
           + 2 * (Cardinality(Pending) + (IF run.pc = 0 THEN 0 ELSE 1) + 1) <= MaxLog
    /\ pool' = [pool EXCEPT ![i] = c]
    /\ UNCHANGED <<identities, log, last, created, run, page>>

\* The machine takes the transaction of slot i and starts executing it; it
\* executes one transaction at a time.
Start(i) ==
    /\ run.pc = 0
    /\ pool[i] # NoTx
    /\ run' = [call |-> pool[i], pc |-> FirstLine(pool[i].op),
               ids |-> identities, log |-> log]
    /\ pool' = [pool EXCEPT ![i] = NoTx]
    /\ UNCHANGED <<identities, log, last, created, page>>

\* The running transaction executes its next statement. A failing require
\* reverts the transaction: storage and log are as they were at its start.
Step ==
    /\ run.pc # 0
    /\ IF RequireFails(run.pc, identities, run.call.caller)
       THEN /\ identities' = run.ids
            /\ log' = run.log
            /\ last' = Outcome(run.call.op, run.call.caller, run.call.caller,
                               run.call.name, run.call.email,
                               RevertReason(run.pc), DefaultIdentity, FALSE)
            /\ run' = Idle
            /\ created' = Observed(created, last')
       ELSE /\ identities' = StoreAfter(run.pc, identities, run.call)
            /\ log' = LogAfter(run.pc, log, run.call)
            /\ IF NextLine(run.pc) = 0
               THEN /\ last' = Outcome(run.call.op, run.call.caller, run.call.caller,
                                       run.call.name, run.call.email,
                                       Ok, DefaultIdentity, FALSE)
                    /\ run' = Idle
                    /\ created' = Observed(created, last')
               ELSE /\ run' = [run EXCEPT !.pc = NextLine(run.pc)]
                    /\ UNCHANGED <<last, created>>
    /\ UNCHANGED <<pool, page>>

\* Code outside the running function reads the contract only between
\* transactions, or while the running function has called out.
CanEnter == run.pc = 0 \/ CallsOut(run.pc)

NextTx ==
    \/ \E i \in 1..MaxPool, c \in TxCalls : Submit(i, c)
    \/ \E i \in 1..MaxPool : Start(i)
    \/ Step
    \/ \E sender \in Callers, _user \in Addresses :
           CanEnter /\ getIdentity(sender, _user)
    \/ \E sender \in Callers, _user \in Addresses :
           CanEnter /\ isIdentityVerified(sender, _user)

\* Fair scheduling: the running transaction keeps executing, and a waiting
\* transaction is not passed over for ever.
SpecTx ==
    /\ Init
    /\ [][NextTx]_vars
    /\ WF_vars(Step)
    /\ \A i \in 1..MaxPool : SF_vars(Start(i))

\* ------------------------------------------------------- the client page
\* The page after fetchIdentity(account) has run with c as the contract of
\* the render it was called in. With no contract, contract?.getIdentity is
\* undefined and reading identity.exists throws; a reverted call throws too;
\* both end in the catch block. The else branch is taken when the call
\* returns a record whose exists member is false.
fetchIdentityPage(pg, c, ids, account) ==
    IF ~c \/ getIdentityResult(ids, account).status # Ok
    THEN [pg EXCEPT !.toast = notify("Failed to fetch identity", "error")]
    ELSE LET identity == getIdentityResult(ids, account).ret
         IN IF identity.exists
            THEN [pg EXCEPT !.name = identity.name,
                            !.email = identity.email,
                            !.identity = <<identity>>,
                            !.isIdentityFetched = TRUE,
                            !.toast = notify("Identity fetched successfully",
                                             "success")]
            ELSE [pg EXCEPT !.toast = notify("No identity found on contract",
                                             "info")]

\* The outcome of the getIdentity call fetchIdentity makes, the signer being
\* msg.sender; without a contract no call is made.
fetchIdentityCall(c, ids, account) ==
    IF c
    THEN Outcome("getIdentity", account, account, "", "",
                 getIdentityResult(ids, account).status,
                 getIdentityResult(ids, account).ret, FALSE)
    ELSE last

\* fetchIdentity(account) as the button handlers call it to refresh the page,
\* with the contract and the account of the current render.
fetchIdentity(account) ==
    /\ page.account = <<account>>
    /\ page' = fetchIdentityPage(page, page.contract, identities, account)
    /\ last' = fetchIdentityCall(page.contract, identities, account)
    /\ UNCHANGED <<identities, log, created, pool, run>>

\* The effect of the component, run after the mount and after every render
\* in which account has changed. With a wallet it stores the contract and
\* the signer's address a, and calls fetchIdentity(a), which still sees the
\* contract of the render the effect belongs to.
useEffect_init(wallet, a) ==
    /\ page.effect
    /\ IF wallet
       THEN /\ page' = [fetchIdentityPage(page, page.contract, identities, a)
                            EXCEPT !.contract = TRUE,
                                   !.account = <<a>>,
                                   !.effect = (page.account # <<a>>)]
            /\ last' = fetchIdentityCall(page.contract, identities, a)
       ELSE /\ page' = [page EXCEPT !.effect = FALSE]
            /\ UNCHANGED last
    /\ UNCHANGED <<identities, log, created, pool, run>>

\* The page next to the registry: accounts change the store with
\* transactions, and the page runs its effect and refreshes.
NextPage ==
    \/ \E sender \in Callers, _name \in Names, _email \in Emails :
           addIdentity(sender, _name, _email)
    \/ \E sender \in Callers, _name \in Names, _email \in Emails :
           updateIdentity(sender, _name, _email)
    \/ \E sender \in Callers : deleteIdentity(sender)
    \/ \E sender \in Callers : verifyIdentity(sender)
    \/ \E sender \in Callers : revokeIdentity(sender)
    \/ \E wallet \in BOOLEAN, a \in Callers : useEffect_init(wallet, a)
    \/ \E account \in Callers : fetchIdentity(account)

SpecPage == Init /\ [][NextPage]_vars

\* ----------------------------------------------------------------- claims
\* The log positions of the specific events of kind t emitted for user p.
EventsOf(l, t, p) == {i \in 1..Len(l) : l[i].type = t /\ l[i].user = p}

\* C1: when addIdentity(name, email) is called by p while p has no live
\* record, the call succeeds and getIdentity(p) on the resulting store returns
\* exactly {user: p, name, email, isVerified: false, exists: true}.
C1_CreateStoresRecord ==
    [][\A p \in Callers :
          (last'.op = "addIdentity" /\ last'.caller = p /\ ~identities[p].exists)
          => /\ last'.status = Ok
             /\ getIdentityResult(identities', p) =
                    [status |-> Ok,
                     ret |-> [user |-> p, name |-> last'.name,
                              email |-> last'.email,
                              isVerified |-> FALSE, exists |-> TRUE]]]_vars

\* C1 witness: a registration with a non-empty name and email has succeeded.
C1_Witness ==
    /\ last.op = "addIdentity" /\ last.status = Ok
    /\ last.name = "Alice" /\ last.email = "alice@example.com"
    /\ identities[last.caller].exists

\* C2: addIdentity called by p fails with "Identity already exists" exactly
\* when an earlier addIdentity by p succeeded and no deleteIdentity by p has
\* succeeded since; in every other case it succeeds.
C2_CreateFailsIffRegistered ==
    [][\A p \in Callers :
          (last'.op = "addIdentity" /\ last'.caller = p)
          => /\ (last'.status = AlreadyExists) <=> created[p]
             /\ ~created[p] => last'.status = Ok]_vars

\* C2 witness: p registered, deleted, registered again, and a further
\* addIdentity by p was refused.
C2_Witness ==
    /\ last.op = "addIdentity" /\ last.status = AlreadyExists
    /\ created[last.caller]
    /\ EventsOf(log, "IdentityDeleted", last.caller) # {}

\* C3: updateIdentity, deleteIdentity, verifyIdentity and revokeIdentity
\* called by p fail with "Identity does not exist" exactly when p has no live
\* record at call time (and succeed otherwise); a principal for which no
\* addIdentity ever succeeded fails on all four.
C3_NotFoundIffAbsent ==
    [][\A p \in Callers :
          (last'.op \in Mutating \ {"addIdentity"} /\ last'.caller = p)
          => /\ (last'.status = NotFound) <=> ~identities[p].exists
             /\ last'.status \in {NotFound, Ok}
             /\ EventsOf(log, "IdentityAdded", p) = {}
                    => last'.status = NotFound]_vars

\* C3 witness: a principal that never registered was refused one of the four
\* calls while another principal has a live record.
C3_Witness ==
    /\ last.op \in Mutating \ {"addIdentity"} /\ last.status = NotFound
    /\ EventsOf(log, "IdentityAdded", last.caller) = {}
    /\ \E q \in Callers : identities[q].exists

\* C4: a call that fails, whichever of the seven functions it is, leaves
\* every record of the store and the event log as they were.
C4_FailureChangesNothing ==
    [][last'.status # Ok => (identities' = identities /\ log' = log)]_vars

\* C4 witness: a refused call in a state with a live record and a non-empty
\* log.
C4_Witness ==
    /\ last.status # Ok
    /\ last.op \in Mutating
    /\ Len(log) > 0
    /\ \E q \in Callers : identities[q].exists

\* C5: after deleteIdentity by p succeeds, getIdentity(p) and
\* isIdentityVerified(p) fail with "Identity does not exist", and as long as
\* no addIdentity by p has succeeded since, a deleteIdentity by p fails with
\* the same reason: two consecutive deletes by p never both succeed.
C5_DeleteThenAbsent ==
    [][/\ (last'.op = "deleteIdentity" /\ last'.status = Ok)
          => /\ getIdentityResult(identities', last'.caller).status = NotFound
             /\ isIdentityVerifiedResult(identities', last'.caller).status = NotFound
       /\ (last'.op = "deleteIdentity" /\ ~created[last'.caller])
          => last'.status = NotFound
       /\ (last.op = "deleteIdentity" /\ last.status = Ok
           /\ last'.op = "deleteIdentity" /\ last'.caller = last.caller)
          => last'.status = NotFound]_vars

\* C5 witness: the last successful mutation was a delete by p and p's next
\* delete was refused.
C5_Witness ==
    /\ last.op = "deleteIdentity" /\ last.status = NotFound
    /\ Len(log) >= 2
    /\ log[Len(log) - 1] = IdentityDeleted(last.caller)
\* C6: a successful updateIdentity(name, email) by p sets the name and email
\* of p's record to the arguments and leaves its isVerified, exists and user
\* members as they were; a verified record stays verified.
C6_UpdateKeepsOtherFields ==
    [][(last'.op = "updateIdentity" /\ last'.status = Ok)
       => /\ identities'[last'.caller].name = last'.name
          /\ identities'[last'.caller].email = last'.email
          /\ identities'[last'.caller].isVerified = identities[last'.caller].isVerified
          /\ identities'[last'.caller].exists = identities[last'.caller].exists
          /\ identities'[last'.caller].user = identities[last'.caller].user
          /\ identities[last'.caller].isVerified
                 => identities'[last'.caller].isVerified]_vars

\* C6 witness: a verified record was edited to a name other than the one it
\* was registered with, and is still verified.
C6_Witness ==
    /\ last.op = "updateIdentity" /\ last.status = Ok
    /\ identities[last.caller].isVerified
    /\ identities[last.caller].name = last.name
    /\ \E i \in EventsOf(log, "IdentityAdded", last.caller) : log[i].name # last.name

\* C7: a successful verifyIdentity by p changes p's record only by setting
\* isVerified to true, a successful revokeIdentity only by setting it to
\* false; a revoke that follows a verify by the same principal leaves
\* isVerified false with name, email, user and exists as the verify left them.
C7_VerifyRevokeOnlyFlag ==
    [][/\ (last'.op = "verifyIdentity" /\ last'.status = Ok)
          => identities'[last'.caller] =
                 [identities[last'.caller] EXCEPT !.isVerified = TRUE]
       /\ (last'.op = "revokeIdentity" /\ last'.status = Ok)
          => identities'[last'.caller] =
                 [identities[last'.caller] EXCEPT !.isVerified = FALSE]
       /\ (last.op = "verifyIdentity" /\ last.status = Ok
           /\ last'.op = "revokeIdentity" /\ last'.caller = last.caller)
          => /\ last'.status = Ok
             /\ identities[last.caller].isVerified
             /\ ~identities'[last.caller].isVerified
             /\ identities'[last.caller].name = identities[last.caller].name
             /\ identities'[last.caller].email = identities[last.caller].email]_vars

\* C7 witness: a record with a non-empty name and email was verified and then
\* revoked, and still carries that name and email.
C7_Witness ==
    /\ last.op = "revokeIdentity" /\ last.status = Ok
    /\ Len(log) >= 4
    /\ log[Len(log) - 3] = IdentityVerified(last.caller)
    /\ identities[last.caller] =
           Identity(last.caller, "Alice", "alice@example.com", FALSE, TRUE)

\* The specific event each mutating function emits.
SpecificEvent(op) ==
    CASE op = "addIdentity" -> "IdentityAdded"
      [] op = "updateIdentity" -> "IdentityUpdated"
      [] op = "deleteIdentity" -> "IdentityDeleted"
      [] op = "verifyIdentity" -> "IdentityVerified"
      [] op = "revokeIdentity" -> "IdentityRevoked"

\* C8: every successful mutating call appends exactly two entries to the end
\* of the log, first its specific event for the caller and then one
\* IdentityActionLogged event, so the pairs are in the order of the calls;
\* failed calls and the two view functions leave the log as it was.
C8_TwoEventsPerMutation ==
    [][IF last'.op \in Mutating /\ last'.status = Ok
       THEN /\ Len(log') = Len(log) + 2
            /\ SubSeq(log', 1, Len(log)) = log
            /\ log'[Len(log) + 1].type = SpecificEvent(last'.op)
            /\ log'[Len(log) + 1].user = last'.caller
            /\ log'[Len(log) + 2].type = "IdentityActionLogged"
       ELSE log' = log]_vars

\* C8 witness: a registration and a verification are in the log in call order
\* and a refused call followed them without adding to it.
C8_Witness ==
    /\ Len(log) = 4
    /\ log[1].type = "IdentityAdded" /\ log[2].type = "IdentityActionLogged"
    /\ log[3].type = "IdentityVerified" /\ log[4].type = "IdentityActionLogged"
    /\ last.status # Ok

\* C9: for every address, a record with isVerified = true has exists = true,
\* and a record with exists = false has every member at its default value
\* (zero address, empty name, empty email, isVerified = false).
C9_AbsentIsDefault ==
    \A a \in Addresses :
        /\ identities[a].isVerified => identities[a].exists
        /\ ~identities[a].exists
               => identities[a] =
                      [user |-> ZeroAddress, name |-> "", email |-> "",
                       isVerified |-> FALSE, exists |-> FALSE]

\* C9 witness: a record that was verified has been deleted.
C9_Witness ==
    \E p \in Callers :
        /\ ~identities[p].exists
        /\ EventsOf(log, "IdentityVerified", p) # {}
        /\ EventsOf(log, "IdentityDeleted", p) # {}

\* C10: a call sent by p, successful or not, leaves the record of every
\* address other than p as it was.
C10_OnlyOwnRecord ==
    [][\A q \in Addresses :
          q # last'.caller => identities'[q] = identities[q]]_vars

\* C10 witness: p deleted its record while another principal's live record
\* is still in the store.
C10_Witness ==
    /\ last.op = "deleteIdentity" /\ last.status = Ok
    /\ \E q \in Callers : q # last.caller /\ identities[q].exists

\* C11: for any sender and any target address q, getIdentity(q) returns the
\* stored record of q and isIdentityVerified(q) returns its stored isVerified
\* member when q has a live record, and both fail with "Identity does not
\* exist" otherwise; neither call changes a record or the event log.
C11_QueriesReadTarget ==
    [][/\ last'.op = "getIdentity"
          => /\ IF identities[last'.user].exists
                THEN last'.status = Ok /\ last'.ret = identities[last'.user]
                ELSE last'.status = NotFound
             /\ identities' = identities /\ log' = log
       /\ last'.op = "isIdentityVerified"
          => /\ IF identities[last'.user].exists
                THEN /\ last'.status = Ok
                     /\ last'.flag = identities[last'.user].isVerified
                ELSE last'.status = NotFound
             /\ identities' = identities /\ log' = log]_vars

\* C11 witness: a sender with no record of its own read the verified record
\* of another principal.
C11_Witness ==
    /\ last.op = "getIdentity" /\ last.status = Ok
    /\ last.caller # last.user
    /\ ~identities[last.caller].exists
    /\ last.ret = identities[last.user]
    /\ last.ret.isVerified /\ last.ret.name = "Alice"

\* C12: after deleteIdentity by p has succeeded, the next addIdentity(name,
\* email) by p (no addIdentity by p having succeeded in between) succeeds and
\* leaves exactly {user: p, name, email, isVerified: false, exists: true},
\* whatever p's record was before the delete.
C12_ReRegistrationIsFresh ==
    [][\A p \in Callers :
          (/\ last'.op = "addIdentity" /\ last'.caller = p
           /\ \/ (last.op = "deleteIdentity" /\ last.status = Ok /\ last.caller = p)
              \/ (~created[p] /\ EventsOf(log, "IdentityDeleted", p) # {}))
          => /\ last'.status = Ok
             /\ identities'[p] =
                    [user |-> p, name |-> last'.name, email |-> last'.email,
                     isVerified |-> FALSE, exists |-> TRUE]]_vars

\* C12 witness: p registered as Alice, was verified, deleted the record and
\* registered again with an empty name and email; the record is unverified
\* and carries nothing of the old one.
C12_Witness ==
    /\ last.op = "addIdentity" /\ last.status = Ok
    /\ Len(log) = 8
    /\ log[1] = IdentityAdded(last.caller, "Alice", "alice@example.com")
    /\ log[3] = IdentityVerified(last.caller)
    /\ log[5] = IdentityDeleted(last.caller)
    /\ identities[last.caller] = Identity(last.caller, "", "", FALSE, TRUE)

\* The lifecycle state of a record.
LifeState(r) ==
    IF ~r.exists THEN "Absent"
    ELSE IF r.isVerified THEN "Verified" ELSE "Unverified"

\* The lifecycle steps: <<state before, function, state after>>.
Transitions ==
    {<<"Absent", "addIdentity", "Unverified">>,
     <<"Unverified", "updateIdentity", "Unverified">>,
     <<"Verified", "updateIdentity", "Verified">>,
     <<"Unverified", "verifyIdentity", "Verified">>,
     <<"Verified", "verifyIdentity", "Verified">>,
     <<"Verified", "revokeIdentity", "Unverified">>,
     <<"Unverified", "revokeIdentity", "Unverified">>,
     <<"Unverified", "deleteIdentity", "Absent">>,
     <<"Verified", "deleteIdentity", "Absent">>}

\* C13: every record starts Absent; a successful mutating call by p moves p's
\* record along one of the lifecycle steps (Absent to Unverified by
\* addIdentity, Unverified to Verified by verifyIdentity, Verified to
\* Unverified by revokeIdentity, Unverified or Verified to Absent by
\* deleteIdentity, updateIdentity keeping the state) and every other call
\* leaves p's state alone; no step goes from Absent to Verified, and Verified
\* is entered only by a successful verifyIdentity of that principal.
\* (A record that a call other than a successful mutation of p leaves as it
\* was has trivially kept its state: the first disjunct.)
C13_Lifecycle ==
    /\ \A p \in Addresses : LifeState(identities[p]) = "Absent"
    /\ [][\A p \in Addresses :
             \/ /\ identities'[p] = identities[p]
                /\ ~(last'.caller = p /\ last'.op \in Mutating /\ last'.status = Ok)
             \/ LET a == LifeState(identities[p])
                    b == LifeState(identities'[p])
                IN /\ IF last'.caller = p /\ last'.op \in Mutating
                         /\ last'.status = Ok
                      THEN <<a, last'.op, b>> \in Transitions
                      ELSE a = b
                   /\ (last'.caller = p /\ last'.op = "updateIdentity") => a = b
                   /\ ~(a = "Absent" /\ b = "Verified")
                   /\ (a # "Verified" /\ b = "Verified")
                          => /\ last'.op = "verifyIdentity"
                             /\ last'.caller = p /\ last'.status = Ok]_vars

\* C13 witness: one principal's record went Absent, Unverified, Verified,
\* Unverified and back to Absent.
C13_Witness ==
    /\ last.op = "deleteIdentity" /\ last.status = Ok
    /\ Len(log) = 8
    /\ log[1].type = "IdentityAdded" /\ log[1].user = last.caller
    /\ log[3] = IdentityVerified(last.caller)
    /\ log[5] = IdentityRevoked(last.caller)
    /\ LifeState(identities[last.caller]) = "Absent"

\* The status of a call as the store alone decides it.
StatusFromStore(ids, o) ==
    IF o.op = "addIdentity"
    THEN (IF ids[o.caller].exists THEN AlreadyExists ELSE Ok)
    ELSE (IF ids[o.user].exists THEN Ok ELSE NotFound)

\* The store after a call as the store before it and the call alone decide it.
StoreFromStore(ids, o) ==
    IF o.op \notin Mutating \/ StatusFromStore(ids, o) # Ok THEN ids
    ELSE [ids EXCEPT ![o.caller] =
             CASE o.op = "addIdentity" ->
                      [user |-> o.caller, name |-> o.name, email |-> o.email,
                       isVerified |-> FALSE, exists |-> TRUE]
               [] o.op = "updateIdentity" ->
                      [@ EXCEPT !.name = o.name, !.email = o.email]
               [] o.op = "deleteIdentity" ->
                      [user |-> ZeroAddress, name |-> "", email |-> "",
                       isVerified |-> FALSE, exists |-> FALSE]
               [] o.op = "verifyIdentity" -> [@ EXCEPT !.isVerified = TRUE]
               [] o.op = "revokeIdentity" -> [@ EXCEPT !.isVerified = FALSE]]

\* C14: in every step the log before the step is a prefix of the log after
\* it (no entry is removed, reordered or rewritten), and the status of the
\* call and the store it leaves are decided by the store before the call and
\* the call's sender and arguments, never by the content of the log.
C14_LogAppendOnly ==
    [][/\ Len(log) <= Len(log')
       /\ SubSeq(log', 1, Len(log)) = log
       /\ last'.status = StatusFromStore(identities, last')
       /\ identities' = StoreFromStore(identities, last')]_vars

\* C14 witness: a third successful mutation was appended behind the four
\* entries of two earlier ones by another principal and itself.
C14_Witness ==
    /\ Len(log) = 6
    /\ last.op \in Mutating /\ last.status = Ok
    /\ log[5].user = last.caller
    /\ log[1].user # last.caller
    /\ log[6] # log[2]

\* The action name the generic event of each mutating function carries.
ActionName(op) ==
    CASE op = "addIdentity" -> "Identity Added"
      [] op = "updateIdentity" -> "Identity Updated"
      [] op = "deleteIdentity" -> "Identity Deleted"
      [] op = "verifyIdentity" -> "Identity Verified"
      [] op = "revokeIdentity" -> "Identity Revoked"

\* The specific event a successful call o must emit: its kind and the sender,
\* with the name and email arguments for addIdentity and updateIdentity only.
ExpectedEvent(o) ==
    IF o.op \in {"addIdentity", "updateIdentity"}
    THEN [type |-> SpecificEvent(o.op), user |-> o.caller,
          name |-> o.name, email |-> o.email]
    ELSE [type |-> SpecificEvent(o.op), user |-> o.caller]

\* C17: a successful mutation appends its specific event, naming the sender
\* (and the name and email passed to addIdentity or updateIdentity), and
\* immediately after it the generic event, which carries nothing but the
\* action name of the function: "Identity Added", "Identity Updated",
\* "Identity Deleted", "Identity Verified" or "Identity Revoked".
C17_EventContents ==
    [][(last'.op \in Mutating /\ last'.status = Ok)
       => /\ Len(log') = Len(log) + 2
          /\ log'[Len(log) + 1] = ExpectedEvent(last')
          /\ log'[Len(log) + 2] =
                 [type |-> "IdentityActionLogged", action |-> ActionName(last'.op)]]_vars

\* C17 witness: the log ends with a revocation and holds an update with its
\* arguments, each followed by its action name.
C17_Witness ==
    /\ Len(log) = 6
    /\ log[3] = [type |-> "IdentityUpdated", user |-> last.caller,
                 name |-> "Alice", email |-> ""]
    /\ log[4] = [type |-> "IdentityActionLogged", action |-> "Identity Updated"]
    /\ log[5] = [type |-> "IdentityRevoked", user |-> last.caller]
    /\ log[6] = [type |-> "IdentityActionLogged", action |-> "Identity Revoked"]

\* C19: every live record stored under key p has its user member equal to p
\* (addIdentity sets it to the sender and no later call changes it), so a
\* getIdentity(p) that succeeds returns a record whose user is p.
C19_UserIsKey ==
    /\ \A p \in Addresses :
           identities[p].exists
               => /\ identities[p].user = p
                  /\ getIdentityResult(identities, p).ret.user = p
    /\ (last.op = "getIdentity" /\ last.status = Ok) => last.ret.user = last.user

\* C19 witness: a record that was registered, edited and verified by its
\* owner is read by another principal, and its user is still its key.
C19_Witness ==
    /\ last.op = "getIdentity" /\ last.status = Ok
    /\ last.caller # last.user
    /\ EventsOf(log, "IdentityUpdated", last.user) # {}
    /\ EventsOf(log, "IdentityVerified", last.user) # {}
    /\ last.ret.user = last.user

\* C20: verifyIdentity by p on a record that is already verified and
\* revokeIdentity by p on a live record that is not verified both succeed,
\* leave every record as it was and still append their specific event and the
\* generic event; so a verify right after a verify, and a revoke right after
\* a revoke, leave the store as the first one did.
C20_VerifyRevokeIdempotent ==
    [][/\ (last'.op = "verifyIdentity" /\ identities[last'.caller].exists
           /\ identities[last'.caller].isVerified)
          => /\ last'.status = Ok
             /\ identities' = identities
             /\ log' = log \o <<[type |-> "IdentityVerified", user |-> last'.caller],
                                [type |-> "IdentityActionLogged",
                                 action |-> "Identity Verified"]>>
       /\ (last'.op = "revokeIdentity" /\ identities[last'.caller].exists
           /\ ~identities[last'.caller].isVerified)
          => /\ last'.status = Ok
             /\ identities' = identities
             /\ log' = log \o <<[type |-> "IdentityRevoked", user |-> last'.caller],
                                [type |-> "IdentityActionLogged",
                                 action |-> "Identity Revoked"]>>
       /\ (/\ last.op \in {"verifyIdentity", "revokeIdentity"} /\ last.status = Ok
           /\ last'.op = last.op /\ last'.caller = last.caller)
          => (last'.status = Ok /\ identities' = identities)]_vars

\* C20 witness: a principal verified its record twice in a row; both calls
\* are in the log and the record is verified.
C20_Witness ==
    /\ last.op = "verifyIdentity" /\ last.status = Ok
    /\ Len(log) = 6
    /\ log[3] = IdentityVerified(last.caller)
    /\ log[5] = IdentityVerified(last.caller)
    /\ identities[last.caller].isVerified

\* The two view functions.
Views == {"getIdentity", "isIdentityVerified"}

\* C15: every mutating call is atomic for the calls around it. A view call,
\* by any sender, reads the store as the last completed transaction left it,
\* never a store in which only part of a running transaction has been applied
\* (the new name with the old email, for example); a running transaction is
\* not interleaved with another one; and when it ends the store holds either
\* all of its effect or none of it.
C15_AtomicTransitions ==
    [][/\ (last'.op \in Views /\ UNCHANGED <<identities, log, pool, run>>)
          => /\ identities = CommittedStore
             /\ last'.op = "getIdentity"
                    => [status |-> last'.status, ret |-> last'.ret]
                           = getIdentityResult(CommittedStore, last'.user)
             /\ last'.op = "isIdentityVerified"
                    => [status |-> last'.status, flag |-> last'.flag]
                           = isIdentityVerifiedResult(CommittedStore, last'.user)
       /\ (run.pc # 0 /\ run'.pc # 0)
          => (run'.call = run.call /\ run'.ids = run.ids)
       /\ (run.pc # 0 /\ run'.pc = 0)
          => identities' \in {run.ids, StoreFromStore(run.ids, last')}]_vars

\* C15 witness: while a transaction waits in the pool, a view call read a
\* record whose name and email had both been replaced by an update.
C15_Witness ==
    /\ last.op = "getIdentity" /\ last.status = Ok
    /\ last.ret.name = "" /\ last.ret.email = ""
    /\ EventsOf(log, "IdentityAdded", last.user) # {}
    /\ EventsOf(log, "IdentityUpdated", last.user) # {}
    /\ Pending # {}

\* C16: transactions take effect one after another, each on the store the
\* previous one left: a transaction starts from the committed store and ends
\* with the status and the store the sequential rules give for it. So of the
\* addIdentity calls of p that wait together while p has no record the first
\* to run succeeds and the next fails with "Identity already exists", and of
\* the deleteIdentity calls of p on a live record the first succeeds and the
\* next fails with "Identity does not exist".
C16_StrictOrder ==
    [][/\ (run.pc = 0 /\ run'.pc # 0)
          => (run'.ids = identities /\ identities' = identities)
       /\ (run.pc # 0 /\ run'.pc = 0)
          => /\ last'.status = StatusFromStore(run.ids, last')
             /\ identities' = StoreFromStore(run.ids, last')
             /\ last'.op = "addIdentity"
                    => last'.status =
                           (IF created[last'.caller] THEN AlreadyExists ELSE Ok)
             /\ last'.op = "deleteIdentity"
                    => last'.status =
                           (IF created[last'.caller] THEN Ok ELSE NotFound)
             /\ (last.op = last'.op /\ last.caller = last'.caller
                 /\ last.status = Ok /\ last'.op \in {"addIdentity", "deleteIdentity"})
                    => last'.status # Ok]_vars

\* C16 witness: of two deleteIdentity transactions of p the first succeeded
\* and the second, executed right after it, was refused.
C16_Witness ==
    /\ last.op = "deleteIdentity" /\ last.status = NotFound
    /\ run.pc = 0
    /\ Len(log) = 4
    /\ log[1].type = "IdentityAdded" /\ log[1].user = last.caller
    /\ log[3] = IdentityDeleted(last.caller)

\* C18: every call completes. A waiting transaction is started and a running
\* one ends, with success or failure, after a bounded number of statements
\* (the line executed only moves forward); a waiting transaction can start
\* whenever the machine is free, whatever the other principals do; and a
\* transaction that has ended, failed or not, is not put back in the pool.
C18_EveryCallCompletes ==
    /\ \A i \in 1..MaxPool : (pool[i] # NoTx) ~> (pool[i] = NoTx)
    /\ (run.pc # 0) ~> (run.pc = 0)
    /\ [](\A i \in 1..MaxPool :
              (run.pc = 0 /\ pool[i] # NoTx) => ENABLED Start(i))
    /\ [](run.pc # 0 => ENABLED Step)
    /\ [][/\ (run.pc # 0 /\ run'.pc # 0 /\ run' # run) => run'.pc > run.pc
          /\ (run.pc # 0 /\ run'.pc = 0) => pool' = pool]_vars

\* C18 witness: a transaction failed while another one was waiting, and the
\* machine is free again with only that other one in the pool.
C18_Witness ==
    /\ last.op \in Mutating /\ last.status # Ok
    /\ run.pc = 0
    /\ Cardinality(Pending) = 1
    /\ \E i \in Pending : pool[i].caller # last.caller

\* The position in l of the last event for user p whose kind is in kinds, 0
\* when there is none.
LastEvent(l, kinds, p) ==
    LET S == {i \in 1..Len(l) : l[i].type \in kinds /\ l[i].user = p}
    IN IF S = {} THEN 0 ELSE CHOOSE i \in S : \A j \in S : j <= i

\* C21: in every state between calls the store is what replaying the event
\* log gives. For every principal p: p has a live record iff the last
\* IdentityAdded/IdentityDeleted event for p is an IdentityAdded; a live
\* record has p as user, the name and email of the last
\* IdentityAdded/IdentityUpdated event for p, and is verified iff the last
\* IdentityAdded/IdentityVerified/IdentityRevoked event for p is an
\* IdentityVerified.
C21_StoreIsReplayOfLog ==
    \A p \in Addresses :
        LET e == LastEvent(log, {"IdentityAdded", "IdentityDeleted"}, p)
            d == LastEvent(log, {"IdentityAdded", "IdentityUpdated"}, p)
            v == LastEvent(log, {"IdentityAdded", "IdentityVerified",
                                 "IdentityRevoked"}, p)
        IN /\ identities[p].exists <=> (e # 0 /\ log[e].type = "IdentityAdded")
           /\ identities[p].exists
                  => /\ identities[p].user = p
                     /\ identities[p].name = log[d].name
                     /\ identities[p].email = log[d].email
                     /\ identities[p].isVerified
                            <=> log[v].type = "IdentityVerified"

\* C21 witness: a live record that was registered, updated to another name
\* and verified.
C21_Witness ==
    \E p \in Callers :
        /\ identities[p].exists /\ identities[p].isVerified
        /\ EventsOf(log, "IdentityUpdated", p) # {}
        /\ \E i \in EventsOf(log, "IdentityAdded", p) :
               log[i].name # identities[p].name

\* C22: fetchIdentity for a connected account with no live record in the
\* registry ends with the informational toast "No identity found on
\* contract", not with the error toast "Failed to fetch identity", and leaves
\* the identity state of the page as it was (isIdentityFetched stays false).
C22_NoRecordIsInformational ==
    [][\A a \in Callers :
          (/\ fetchIdentity(a) \/ useEffect_init(TRUE, a)
           /\ page.contract
           /\ ~identities[a].exists)
          => /\ page'.toast = notify("No identity found on contract", "info")
             /\ page'.toast # notify("Failed to fetch identity", "error")
             /\ page'.identity = page.identity
             /\ ~page.isIdentityFetched => ~page'.isIdentityFetched]_vars
====
